---- MODULE Spec2Model ----
(***************************************************************************)
(* A model of the keycloak-agent-identity launcher scripts:                *)
(*   keycloak/boot_keycloak.py  load config, manage containers, poll the   *)
(*                              health endpoint, run setup_keycloak.py     *)
(*   run_keycloak.py            project-root wrapper around boot_keycloak  *)
(*   run_spire.py               dispatcher for spire-up.sh / spire-down.sh *)
(* Docker, the HTTP endpoint, the file system and the child processes are  *)
(* the environment: every result they can give is drawn with \E.           *)
(***************************************************************************)
EXTENDS Integers, Sequences, FiniteSets, TLC

VARIABLES
    prog,          \* the entry point of this run
    pc,            \* position in the running script
    exitCode,      \* the process exit status, meaningful once pc = "exited"
    cwd,           \* the process working directory (a canonical path)
    entryCwd,      \* the working directory the process was started in
    argConfig,     \* boot_keycloak: --config as received on the command line
    argsConfig,    \* boot_keycloak: args.config after main's default handling
    opened,        \* boot_keycloak: files load_config has opened
    config,        \* boot_keycloak: what load_config found in the file
    realm_name,    \* boot_keycloak: config['realm']['name']
    cmds,          \* boot_keycloak: child commands issued so far, with results
    max_attempts,  \* wait_for_keycloak: the attempt budget
    attempt,       \* wait_for_keycloak: the loop variable
    health,        \* health requests issued and 200 responses received
    lastOutcome,   \* outcome of the latest health request
    waitResult,    \* wait_for_keycloak's return value
    forwarded,     \* files named by the --config handed to setup_keycloak.py
    reported,      \* the final summary has been logged
    wrapArgs,      \* run_keycloak: parsed command line
    config_path,   \* run_keycloak: the computed config path (<<>> before)
    down,          \* run_spire: --down
    spireFiles,    \* run_spire: what exists on disk
    script_name,   \* run_spire: the selected script
    original_cwd,  \* run_spire: the saved working directory
    chmods,        \* run_spire: scripts made executable
    runs           \* run_spire: scripts executed, with their results

vars == <<prog, pc, exitCode, cwd, entryCwd, argConfig, argsConfig, opened, config, realm_name,
          cmds, max_attempts, attempt, health, lastOutcome, waitResult,
          forwarded, reported, wrapArgs, config_path, down,
          spireFiles, script_name, original_cwd, chmods, runs>>

bootVars  == <<argConfig, argsConfig, opened, config, realm_name, cmds,
              forwarded, reported>>
pollVars  == <<max_attempts, attempt, health, lastOutcome, waitResult>>
wrapVars  == <<wrapArgs, config_path>>
spireVars == <<down, spireFiles, script_name, original_cwd, chmods, runs>>

(***************************************************************************)
(* Bounds of the model and constants of the program.                       *)
(***************************************************************************)
MaxPathLen == 3            \* components in a --config string given by the user
MaxBudget == 8             \* largest attempt budget tried on wait_for_keycloak
DefaultMaxAttempts == 30   \* wait_for_keycloak's default max_attempts

(***************************************************************************)
(* Paths.  A path string is [abs, parts]: whether it starts with "/" and   *)
(* the text between the slashes ("" comes from a doubled or trailing       *)
(* slash).  A canonical path is the sequence of names from the root.       *)
(***************************************************************************)
Tokens == {"", ".", "..", "keycloak", "config.json"}

SeqsUpTo(S, n) == UNION {[1..k -> S] : k \in 1..n}

RelStrings == {[abs |-> FALSE, parts |-> q] : q \in SeqsUpTo(Tokens, MaxPathLen)}

AbsStrings == {[abs |-> TRUE, parts |-> <<"proj", "keycloak", "config.json">>],
               [abs |-> TRUE, parts |-> <<"etc", "..", "etc", "kc.json">>]}

\* Path(__file__).parent of each script, __file__ being absolute.
ProjectRoot == <<"proj">>
KeycloakDir == ProjectRoot \o <<"keycloak">>
SpireDir == ProjectRoot \o <<"spire">>
HomeDir == <<"home">>

DEFAULT_CONFIG_FILE == [abs |-> FALSE, parts |-> <<"config.json">>]

\* pathlib.Path(s): "." components and empty components are dropped.
PurePath(s) == [abs |-> s.abs, parts |-> SelectSeq(s.parts, LAMBDA c : c # "." /\ c # "")]

\* str(path): an empty relative path prints as "."
Str(p) == IF ~p.abs /\ p.parts = <<>> THEN [abs |-> FALSE, parts |-> <<".">>] ELSE p

\* a / b
JoinPath(a, b) == IF b.abs THEN b ELSE [abs |-> a.abs, parts |-> a.parts \o b.parts]

AbsPath(dir) == [abs |-> TRUE, parts |-> dir]

\* The walk the operating system makes from the root over absolute parts.
RECURSIVE Canon(_, _)
Canon(at, rest) ==
    IF rest = <<>> THEN at
    ELSE LET c == Head(rest) IN
         IF c = "." \/ c = "" THEN Canon(at, Tail(rest))
         ELSE IF c = ".."
              THEN Canon(IF at = <<>> THEN <<>> ELSE SubSeq(at, 1, Len(at) - 1), Tail(rest))
              ELSE Canon(Append(at, c), Tail(rest))

\* The file a process whose working directory is dir reaches through s.
OpenFile(s, dir) == Canon(<<>>, (IF s.abs THEN <<>> ELSE dir) \o s.parts)

\* Path.resolve(): absolute, without "..", relative paths taken from dir.
Resolve(p, dir) == AbsPath(OpenFile(p, dir))

(***************************************************************************)
(* boot_keycloak.py                                                        *)
(***************************************************************************)
ConfigContents == {"missing", "invalid_json", "not_object", "no_realm", "realm_no_name", "ok"}
HealthOutcomes == {"200", "503", "transport_error"}
ChildExitCodes == {0, 1, 2}

\* load_config returns only when the file opens and parses.
LoadConfigReturns(content) == content \notin {"missing", "invalid_json"}

\* A variant that reads only config['realm'].
HasRealmNameLax(content) == content \in {"ok", "realm_no_name"}

\* config['realm']['name'] raises KeyError / TypeError unless both keys exist.
HasRealmName(content) == content = "ok"

\* load_config: a relative path is taken from the script's directory.
LoadConfigPath(s) ==
    IF PurePath(s).abs THEN PurePath(s) ELSE JoinPath(AbsPath(KeycloakDir), PurePath(s))

\* main: the default --config is replaced by <script_dir>/config.json.
MainConfigArg(s) ==
    IF s = DEFAULT_CONFIG_FILE
    THEN Str(JoinPath(AbsPath(KeycloakDir), PurePath(DEFAULT_CONFIG_FILE)))
    ELSE s

Exit(code) == /\ pc' = "exited"
              /\ exitCode' = code

\* main, step 1: args.config, load_config, realm name.
LoadConfig ==
    /\ pc = "boot_start"
    /\ argsConfig' = MainConfigArg(argConfig)
    /\ opened' = opened \cup {OpenFile(LoadConfigPath(argsConfig'), cwd)}
    /\ \E content \in ConfigContents :
          /\ config' = content
          /\ IF LoadConfigReturns(content) /\ HasRealmName(content)
             THEN /\ realm_name' = "demo"
                  /\ pc' = "docker_ps"
                  /\ UNCHANGED exitCode
             ELSE /\ Exit(1)
                  /\ UNCHANGED realm_name
    /\ UNCHANGED <<prog, entryCwd, cwd, argConfig, cmds, forwarded, reported,
                   pollVars, wrapVars, spireVars>>


\* A variant of run_command that returns the error instead of raising it.
RunCommandNeverRaises(check, rc) == FALSE

\* run_command: subprocess.run(check=check) raises CalledProcessError on a
\* non-zero exit status exactly when check is set, and run_command re-raises it.
RunCommandRaises(check, rc) == check /\ rc # 0

PsExitCodes == {0, 1}
PsStdouts == {<<>>, <<"keycloak", "Exited">>, <<"db", "Exited", "keycloak", "Up">>}

\* "Up" in result.stdout
ContainsUp(out) == \E i \in 1..Len(out) : out[i] = "Up"

Issued(c, rc, out) == cmds' = Append(cmds, [cmd |-> c, rc |-> rc, out |-> out])

\* manage_docker_compose: docker compose ps (check=False).
DockerPs ==
    /\ pc = "docker_ps"
    /\ \E rc \in PsExitCodes, out \in PsStdouts :
          /\ Issued("ps", rc, out)
          /\ IF RunCommandRaises(FALSE, rc)
             THEN Exit(1)
             ELSE /\ pc' = IF ContainsUp(out) THEN "docker_down" ELSE "docker_up"
                  /\ UNCHANGED exitCode
    /\ UNCHANGED <<prog, entryCwd, cwd, argConfig, argsConfig, opened, config, realm_name, forwarded,
                   reported, pollVars, wrapVars, spireVars>>

\* manage_docker_compose: docker compose down, then the settle delay.
\* A raise leaves manage_docker_compose and reaches main's except Exception.
DockerDown ==
    /\ pc = "docker_down"
    /\ \E rc \in ChildExitCodes :
          /\ Issued("down", rc, <<>>)
          /\ IF RunCommandRaises(TRUE, rc)
             THEN Exit(1)
             ELSE /\ pc' = "docker_up"
                  /\ UNCHANGED exitCode
    /\ UNCHANGED <<prog, entryCwd, cwd, argConfig, argsConfig, opened, config, realm_name, forwarded,
                   reported, pollVars, wrapVars, spireVars>>

\* A variant that starts the stack without looking at the result.
DockerUpUnchecked ==
    /\ pc = "docker_up"
    /\ \E rc \in ChildExitCodes : Issued("up", rc, <<>>)
    /\ pc' = "poll"
    /\ UNCHANGED <<prog, entryCwd, exitCode, cwd, argConfig, argsConfig, opened, config,
                   realm_name, forwarded, reported, pollVars, wrapVars, spireVars>>

\* manage_docker_compose: docker compose up -d, the returncode test, and
\* main's "if not manage_docker_compose(...)".
DockerUp ==
    /\ pc = "docker_up"
    /\ \E rc \in ChildExitCodes :
          /\ Issued("up", rc, <<>>)
          /\ IF RunCommandRaises(TRUE, rc) \/ rc # 0
             THEN Exit(1)
             ELSE /\ pc' = "poll"
                  /\ UNCHANGED exitCode
    /\ UNCHANGED <<prog, entryCwd, cwd, argConfig, argsConfig, opened, config, realm_name, forwarded,
                   reported, pollVars, wrapVars, spireVars>>

\* check_keycloak_health: True only for status 200; a non-200 status and a
\* RequestException both give False.
CheckKeycloakHealth(outcome) == outcome = "200"

\* A variant with one pass too many.
LoopContinuesOffByOne(i, n) == i <= n

\* range(max_attempts) still has an element for the loop variable.
LoopContinues(i, n) == i < n

\* wait_for_keycloak: one pass of the loop body up to the sleep.
HealthCheck ==
    /\ pc = "poll"
    /\ LoopContinues(attempt, max_attempts)
    /\ \E outcome \in HealthOutcomes :
          /\ lastOutcome' = outcome
          /\ health' = [requests |-> health.requests + 1,
                        ok |-> health.ok + (IF outcome = "200" THEN 1 ELSE 0)]
          /\ IF CheckKeycloakHealth(outcome)
             THEN /\ waitResult' = "True"
                  /\ pc' = "wait_done"
             ELSE /\ pc' = "sleep"
                  /\ UNCHANGED waitResult
    /\ UNCHANGED <<prog, entryCwd, exitCode, cwd, max_attempts, attempt, bootVars,
                   wrapVars, spireVars>>

\* wait_for_keycloak: time.sleep(2) and the next value of the loop variable.
Sleep ==
    /\ pc = "sleep"
    /\ attempt' = attempt + 1
    /\ pc' = "poll"
    /\ UNCHANGED <<prog, entryCwd, exitCode, cwd, max_attempts, health, lastOutcome, waitResult,
                   bootVars, wrapVars, spireVars>>

\* wait_for_keycloak: the loop is exhausted.
WaitExhausted ==
    /\ pc = "poll"
    /\ ~LoopContinues(attempt, max_attempts)
    /\ waitResult' = "False"
    /\ pc' = "wait_done"
    /\ UNCHANGED <<prog, entryCwd, exitCode, cwd, max_attempts, attempt, health, lastOutcome,
                   bootVars, wrapVars, spireVars>>

\* A variant that goes on to the setup whatever the poll returned.
AfterWaitUnchecked ==
    /\ pc = "wait_done"
    /\ prog # "wait_for_keycloak"
    /\ pc' = "setup"
    /\ UNCHANGED <<prog, entryCwd, exitCode, cwd, bootVars, pollVars, wrapVars, spireVars>>

\* main, step 3: "if not wait_for_keycloak(args.url): sys.exit(1)".
AfterWait ==
    /\ pc = "wait_done"
    /\ prog # "wait_for_keycloak"
    /\ IF waitResult = "True"
       THEN /\ pc' = "setup"
            /\ UNCHANGED exitCode
       ELSE Exit(1)
    /\ UNCHANGED <<prog, entryCwd, cwd, bootVars, pollVars, wrapVars, spireVars>>

\* subprocess.run on an argument list: the child could not be started, or it
\* exited with a status.
ChildOutcomes == {[spawned |-> FALSE, rc |-> 0]} \cup
                 {[spawned |-> TRUE, rc |-> c] : c \in ChildExitCodes}

\* run_setup_keycloak: True only when the child ran and exited 0; a
\* CalledProcessError and any other exception are caught and give False.
RunSetupReturns(o) == o.spawned /\ ~RunCommandRaises(TRUE, o.rc)

\* A variant that exits with the child's status.
SetupFailurePropagates(o) == IF o.spawned THEN o.rc ELSE 1

\* main, step 4: the exit status after run_setup_keycloak returned False.
SetupFailureExit(o) == 1

\* main, step 4: run_setup_keycloak(args.config, ...) with cwd=script_dir.
RunSetup ==
    /\ pc = "setup"
    /\ \E o \in ChildOutcomes :
          /\ IF o.spawned
             THEN /\ Issued("setup", o.rc, <<>>)
                  /\ forwarded' = forwarded \cup {OpenFile(argsConfig, KeycloakDir)}
             ELSE UNCHANGED <<cmds, forwarded>>
          /\ IF RunSetupReturns(o)
             THEN /\ pc' = "summary"
                  /\ UNCHANGED exitCode
             ELSE Exit(SetupFailureExit(o))
    /\ UNCHANGED <<prog, entryCwd, cwd, argConfig, argsConfig, opened, config, realm_name, reported,
                   pollVars, wrapVars, spireVars>>

\* main: the closing log lines, then the normal return (exit status 0).
Summary ==
    /\ pc = "summary"
    /\ reported' = TRUE
    /\ Exit(0)
    /\ UNCHANGED <<prog, entryCwd, cwd, argConfig, argsConfig, opened, config, realm_name, cmds, forwarded,
                   pollVars, wrapVars, spireVars>>

BootNext == \/ LoadConfig
            \/ DockerPs
            \/ DockerDown
            \/ DockerUp
            \/ HealthCheck
            \/ Sleep
            \/ WaitExhausted
            \/ AfterWait
            \/ RunSetup
            \/ Summary

NoPath == [abs |-> FALSE, parts |-> <<>>]

\* What every entry point starts from.
Idle ==
    /\ exitCode = 0
    /\ entryCwd = cwd
    /\ argsConfig = NoPath
    /\ opened = {}
    /\ config = "unread"
    /\ realm_name = ""
    /\ cmds = <<>>
    /\ attempt = 0
    /\ health = [requests |-> 0, ok |-> 0]
    /\ lastOutcome = "none"
    /\ waitResult = "none"
    /\ forwarded = {}
    /\ reported = FALSE
    /\ config_path = <<>>
    /\ script_name = ""
    /\ original_cwd = <<>>
    /\ chmods = <<>>
    /\ runs = <<>>

NoWrapper == wrapArgs = [help |-> FALSE, down |-> FALSE, config |-> <<>>]

NoSpire == /\ down = FALSE
           /\ spireFiles = {}

BootConfigArgs == {DEFAULT_CONFIG_FILE,
                   [abs |-> FALSE, parts |-> <<".", "config.json">>],
                   [abs |-> FALSE, parts |-> <<"..", "config.json">>]} \cup AbsStrings

\* python boot_keycloak.py [--config ...], started in the keycloak directory.
InitBoot ==
    /\ prog = "boot_keycloak"
    /\ pc = "boot_start"
    /\ cwd = KeycloakDir
    /\ argConfig \in BootConfigArgs
    /\ max_attempts = DefaultMaxAttempts
    /\ Idle /\ NoWrapper /\ NoSpire

SpecBoot == InitBoot /\ [][BootNext]_vars

\* wait_for_keycloak(url, N) called on its own, for each budget N >= 1.
InitPoll ==
    /\ prog = "wait_for_keycloak"
    /\ pc = "poll"
    /\ cwd = KeycloakDir
    /\ argConfig = NoPath
    /\ max_attempts \in 1..MaxBudget
    /\ Idle /\ NoWrapper /\ NoSpire

PollNext == \/ HealthCheck
            \/ Sleep
            \/ WaitExhausted

SpecPoll == InitPoll /\ [][PollNext]_vars


(***************************************************************************)
(* run_spire.py                                                            *)
(***************************************************************************)
SpireFileSets == {S \in SUBSET {"spire", "spire-up.sh", "spire-down.sh"} :
                     S # {} => "spire" \in S}

\* The outcomes of subprocess.run([./script], check=True): the child could
\* not be started, it exited with a status, or a signal ended it (-9).
SpireOutcomes == {[spawned |-> FALSE, rc |-> 0]} \cup
                 {[spawned |-> TRUE, rc |-> c] : c \in ChildExitCodes \cup {127, 0 - 9}}

\* A variant that ignores the flag.
ScriptForIgnoresFlag(d) == "spire-up.sh"

\* The script the --down flag selects.
ScriptFor(d) == IF d THEN "spire-down.sh" ELSE "spire-up.sh"

\* The status the operating system reports for sys.exit(n).
SysExit(n) == n % 256

\* A variant that exits 1 on every failure.
SpireFailureExitOne(rc) == 1

\* sys.exit(e.returncode) in the CalledProcessError handler.
SpireFailureExit(rc) == SysExit(rc)

\* A variant without the finally clause.
RestoreCwdMissing == UNCHANGED cwd

\* finally: os.chdir(original_cwd)
RestoreCwd == cwd' = original_cwd

\* The spire directory check.
SpireCheckDir ==
    /\ pc = "spire_start"
    /\ IF "spire" \in spireFiles
       THEN /\ pc' = "spire_select"
            /\ UNCHANGED exitCode
       ELSE Exit(1)
    /\ UNCHANGED <<prog, entryCwd, cwd, bootVars, pollVars, wrapVars, spireVars>>

\* The script choice and its existence check.
SpireSelect ==
    /\ pc = "spire_select"
    /\ script_name' = ScriptFor(down)
    /\ IF script_name' \in spireFiles
       THEN /\ pc' = "spire_chdir"
            /\ UNCHANGED exitCode
       ELSE Exit(1)
    /\ UNCHANGED <<prog, entryCwd, cwd, bootVars, pollVars, wrapVars, down, spireFiles,
                   original_cwd, chmods, runs>>

\* original_cwd = os.getcwd(); os.chdir(spire_dir)
SpireChdir ==
    /\ pc = "spire_chdir"
    /\ original_cwd' = cwd
    /\ cwd' = SpireDir
    /\ pc' = "spire_chmod"
    /\ UNCHANGED <<prog, entryCwd, exitCode, bootVars, pollVars, wrapVars, down, spireFiles,
                   script_name, chmods, runs>>

\* os.chmod(spire_script, 0o755); an OSError reaches "except Exception".
SpireChmod ==
    /\ pc = "spire_chmod"
    /\ \E ok \in BOOLEAN :
          /\ chmods' = Append(chmods, [script |-> script_name, ok |-> ok])
          /\ IF ok
             THEN /\ pc' = "spire_run"
                  /\ UNCHANGED <<exitCode, cwd>>
             ELSE /\ Exit(1)
                  /\ RestoreCwd
    /\ UNCHANGED <<prog, entryCwd, bootVars, pollVars, wrapVars, down, spireFiles,
                   script_name, original_cwd, runs>>

\* subprocess.run(check=True), the three handlers and the finally clause.
SpireRun ==
    /\ pc = "spire_run"
    /\ \E o \in SpireOutcomes :
          /\ runs' = Append(runs, [script |-> script_name, spawned |-> o.spawned, rc |-> o.rc])
          /\ IF ~o.spawned THEN Exit(1)
             ELSE IF RunCommandRaises(TRUE, o.rc) THEN Exit(SpireFailureExit(o.rc))
             ELSE IF o.rc = 0 THEN Exit(0)
             ELSE Exit(SysExit(o.rc))
    /\ RestoreCwd
    /\ UNCHANGED <<prog, entryCwd, bootVars, pollVars, wrapVars, down, spireFiles,
                   script_name, original_cwd, chmods>>

SpireNext == \/ SpireCheckDir
             \/ SpireSelect
             \/ SpireChdir
             \/ SpireChmod
             \/ SpireRun

StartDirs == {ProjectRoot, HomeDir, SpireDir}

\* python run_spire.py [--down], started in any directory.
InitSpire ==
    /\ prog = "run_spire"
    /\ pc = "spire_start"
    /\ cwd \in StartDirs
    /\ argConfig = NoPath
    /\ max_attempts = DefaultMaxAttempts
    /\ Idle /\ NoWrapper
    /\ down \in BOOLEAN
    /\ spireFiles \in SpireFileSets

SpecSpire == InitSpire /\ [][SpireNext]_vars

(***************************************************************************)
(* run_keycloak.py                                                         *)
(***************************************************************************)
\* A variant that hands a relative user path on as it was given.
WrapperConfigPathUnresolved(cfg, rootExists, dir) ==
    IF cfg = <<>>
    THEN IF rootExists
         THEN Str(JoinPath(AbsPath(ProjectRoot), PurePath(DEFAULT_CONFIG_FILE)))
         ELSE DEFAULT_CONFIG_FILE
    ELSE Str(PurePath(cfg[1]))

\* The config path the wrapper hands to boot_keycloak: the default, or the
\* user's path made absolute from the project root.
WrapperConfigPath(cfg, rootExists, dir) ==
    IF cfg = <<>>
    THEN IF rootExists
         THEN Str(JoinPath(AbsPath(ProjectRoot), PurePath(DEFAULT_CONFIG_FILE)))
         ELSE DEFAULT_CONFIG_FILE
    ELSE LET config_arg == PurePath(cfg[1]) IN
         IF config_arg.abs
         THEN Str(config_arg)
         ELSE Str(Resolve(JoinPath(AbsPath(ProjectRoot), config_arg), dir))

\* --help: chdir, then boot_keycloak's parser prints the help and exits 0.
WrapHelp ==
    /\ pc = "wrap_start"
    /\ wrapArgs.help
    /\ cwd' = KeycloakDir
    /\ Exit(0)
    /\ UNCHANGED <<prog, entryCwd, bootVars, pollVars, wrapVars, spireVars>>

\* --down: chdir, docker compose down (check=True), exit 1 on any failure.
WrapDown ==
    /\ pc = "wrap_start"
    /\ ~wrapArgs.help /\ wrapArgs.down
    /\ cwd' = KeycloakDir
    /\ \E o \in ChildOutcomes :
          /\ IF o.spawned THEN Issued("down", o.rc, <<>>) ELSE UNCHANGED cmds
          /\ IF o.spawned /\ ~RunCommandRaises(TRUE, o.rc) THEN Exit(0) ELSE Exit(1)
    /\ UNCHANGED <<prog, entryCwd, argConfig, argsConfig, opened, config, realm_name, forwarded,
                   reported, pollVars, wrapVars, spireVars>>

\* The config path is computed, in the directory the wrapper was started in.
WrapConfig ==
    /\ pc = "wrap_start"
    /\ ~wrapArgs.help /\ ~wrapArgs.down
    /\ \E rootExists \in BOOLEAN :
          config_path' = <<WrapperConfigPath(wrapArgs.config, rootExists, cwd)>>
    /\ pc' = "wrap_chdir"
    /\ UNCHANGED <<prog, entryCwd, exitCode, cwd, bootVars, pollVars, wrapArgs, spireVars>>

\* os.chdir(keycloak_dir), the new sys.argv, and the call of boot_keycloak.main.
WrapChdir ==
    /\ pc = "wrap_chdir"
    /\ cwd' = KeycloakDir
    /\ argConfig' = config_path[1]
    /\ pc' = "boot_start"
    /\ UNCHANGED <<prog, entryCwd, exitCode, argsConfig, opened, config, realm_name, cmds, forwarded,
                   reported, pollVars, wrapVars, spireVars>>

WrapNext == \/ WrapHelp
            \/ WrapDown
            \/ WrapConfig
            \/ WrapChdir
            \/ BootNext

WrapConfigArgs == {<<>>} \cup {<<s>> : s \in RelStrings \cup AbsStrings}

\* python run_keycloak.py [--config ...] [--down] [--help]
InitWrap ==
    /\ prog = "run_keycloak"
    /\ pc = "wrap_start"
    /\ cwd \in {ProjectRoot, HomeDir}
    /\ argConfig = NoPath
    /\ max_attempts = DefaultMaxAttempts
    /\ wrapArgs \in [help : BOOLEAN, down : BOOLEAN, config : WrapConfigArgs]
    /\ Idle /\ NoSpire

SpecWrap == InitWrap /\ [][WrapNext]_vars


(***************************************************************************)
(* Properties.                                                             *)
(***************************************************************************)
Exited == pc = "exited"

Names(q) == [i \in 1..Len(q) |-> q[i].cmd]

IsDocker(c) == c.cmd \in {"ps", "down", "up"}

Has(c) == \E i \in 1..Len(cmds) : cmds[i].cmd = c

Succeeded(c) == \E i \in 1..Len(cmds) : cmds[i].cmd = c /\ cmds[i].rc = 0

Failed(c) == \E i \in 1..Len(cmds) : cmds[i].cmd = c /\ cmds[i].rc # 0

Count(c) == Cardinality({i \in 1..Len(cmds) : cmds[i].cmd = c})

\* C1: wait_for_keycloak issues at most max_attempts health requests, none
\* after the first 200 (so the only 200 is the latest response), returns True
\* exactly when a request returned 200, and returns False only after all
\* max_attempts requests failed.
C1_WaitContract ==
    /\ health.requests <= max_attempts
    /\ health.ok <= 1
    /\ health.ok = 1 => lastOutcome = "200"
    /\ pc = "wait_done" => /\ waitResult \in {"True", "False"}
                           /\ waitResult = "True" <=> health.ok >= 1
                           /\ waitResult = "False" => health.requests = max_attempts

\* C1 witness: the budget's last request is the one that returned 200.
C1_Witness ==
    /\ pc = "wait_done"
    /\ waitResult = "True"
    /\ max_attempts > 2
    /\ health.requests = max_attempts

\* C2: once docker compose up -d has exited non-zero the process has exited
\* with status 1 and no health request was or will be issued.
C2_UpFailureExitsBeforePoll ==
    Failed("up") => /\ Exited
                    /\ exitCode = 1
                    /\ health.requests = 0
                    /\ ~Has("setup")

\* C2 witness: the start command failed after a successful stop.
C2_Witness ==
    /\ Names(cmds) = <<"ps", "down", "up">>
    /\ cmds[3].rc = 2
    /\ Exited

ContainersManaged == Succeeded("up") /\ ~Failed("down")

AllStepsSucceeded ==
    /\ config = "ok"
    /\ ContainersManaged
    /\ health.ok >= 1
    /\ Succeeded("setup")

\* C3: boot_keycloak exits with 0 or 1; with 0 exactly when the config loaded
\* with realm.name, the containers were managed, a health request returned
\* 200 and setup_keycloak.py exited 0; a failed config load or container
\* command has already ended the run.
C3_ExitCodes ==
    /\ Exited => /\ exitCode \in {0, 1}
                 /\ exitCode = 0 <=> AllStepsSucceeded
    /\ (config \notin {"unread", "ok"} \/ Failed("down") \/ Failed("up") \/ Failed("setup"))
          => Exited /\ exitCode = 1
    /\ waitResult = "False" => pc \in {"wait_done", "exited"}

\* C3 witness: a full run, stopping the old containers first, that exits 0.
C3_Witness ==
    /\ Exited
    /\ exitCode = 0
    /\ Names(cmds) = <<"ps", "down", "up", "setup">>
    /\ health.requests > 1

\* C4 as claimed: a non-zero exit status c of setup_keycloak.py becomes the
\* exit status of the boot process.
C4_ChildCodePropagated ==
    \A i \in 1..Len(cmds) :
        (Exited /\ cmds[i].cmd = "setup" /\ cmds[i].rc # 0) => exitCode = cmds[i].rc

\* C4 amended: a non-zero exit status of setup_keycloak.py is fatal and the
\* boot process exits with status 1, whatever the child's status was.
C4_SetupFailureExitsOne ==
    Failed("setup") => /\ Exited
                       /\ exitCode = 1
                       /\ ~reported

\* C4 witness: setup_keycloak.py exited with status 2.
C4_Witness ==
    /\ Exited
    /\ \E i \in 1..Len(cmds) : cmds[i].cmd = "setup" /\ cmds[i].rc = 2

Selected == IF down THEN "spire-down.sh" ELSE "spire-up.sh"

\* C5: run_spire makes executable and executes at most one script, the one
\* the flag selects; with --down spire-up.sh is never touched.
C5_OnlySelectedScript ==
    /\ Len(runs) <= 1
    /\ Len(chmods) <= 1
    /\ \A i \in 1..Len(runs) : runs[i].script = Selected
    /\ \A i \in 1..Len(chmods) : chmods[i].script = Selected
    /\ down => /\ \A i \in 1..Len(runs) : runs[i].script # "spire-up.sh"
               /\ \A i \in 1..Len(chmods) : chmods[i].script # "spire-up.sh"
    /\ script_name \in {"", Selected}

\* C5 witness: --down, with both scripts on disk, and the script has run.
C5_Witness ==
    /\ down
    /\ spireFiles = {"spire", "spire-up.sh", "spire-down.sh"}
    /\ Len(runs) = 1
    /\ runs[1].spawned

\* C6: when run_spire has finished, on any path, the working directory is
\* the one it was started in.
C6_CwdRestored == (prog = "run_spire" /\ Exited) => cwd = entryCwd

\* C6 witness: started outside the spire directory, the script failed.
C6_Witness ==
    /\ prog = "run_spire"
    /\ Exited
    /\ entryCwd = HomeDir
    /\ Len(runs) = 1
    /\ runs[1].spawned
    /\ runs[1].rc = 2

ScriptRan == Len(runs) = 1 /\ runs[1].spawned

WrapperSideFailure ==
    \/ "spire" \notin spireFiles
    \/ Selected \notin spireFiles
    \/ \E i \in 1..Len(chmods) : ~chmods[i].ok
    \/ \E i \in 1..Len(runs) : ~runs[i].spawned

\* C7: when the script ran and exited with status c, run_spire exits with c
\* (0 for 0); run_spire's own status 1 is the result exactly when the
\* directory or script is missing or chmod or the spawn raised, and then no
\* script has run.
C7_ExitCodePropagated ==
    (prog = "run_spire" /\ Exited) =>
        /\ (ScriptRan /\ runs[1].rc >= 0) => exitCode = runs[1].rc
        /\ ~ScriptRan <=> WrapperSideFailure
        /\ WrapperSideFailure => exitCode = 1
        /\ exitCode = 1 => WrapperSideFailure \/ (ScriptRan /\ runs[1].rc = 1)

\* C7 witness: the script exited with status 127 and so did the wrapper.
C7_Witness ==
    /\ prog = "run_spire"
    /\ Exited
    /\ ScriptRan
    /\ runs[1].rc = 127
    /\ exitCode = 127

\* The wrapper was given --config keycloak/p for a relative p.
KeycloakPrefixed ==
    /\ ~wrapArgs.help /\ ~wrapArgs.down
    /\ wrapArgs.config # <<>>
    /\ ~wrapArgs.config[1].abs
    /\ Len(wrapArgs.config[1].parts) >= 2
    /\ Head(wrapArgs.config[1].parts) = "keycloak"

RestOf(s) == [abs |-> FALSE, parts |-> Tail(s.parts)]

\* What boot_keycloak, started in the keycloak directory with --config p,
\* loads and hands to setup_keycloak.py.
DirectOpened(p) == OpenFile(LoadConfigPath(MainConfigArg(p)), KeycloakDir)
DirectForwarded(p) == OpenFile(MainConfigArg(p), KeycloakDir)

\* C8: through the wrapper, --config keycloak/p makes boot_keycloak load and
\* forward the file that --config p names when boot_keycloak is run in the
\* keycloak directory; keycloak/config.json is <root>/keycloak/config.json;
\* the path is absolute before the working directory changes.
C8_SameConfigFile ==
    KeycloakPrefixed =>
        LET p == RestOf(wrapArgs.config[1]) IN
        /\ opened \in {{}, {DirectOpened(p)}}
        /\ forwarded \in {{}, {DirectForwarded(p)}}
        /\ config # "unread" => opened # {}
        /\ p = DEFAULT_CONFIG_FILE => opened \subseteq {KeycloakDir \o <<"config.json">>}
        /\ cwd = KeycloakDir => /\ config_path # <<>>
                                /\ config_path[1].abs
        /\ config_path # <<>> /\ config_path[1].abs /\ pc = "wrap_chdir" => cwd = entryCwd

\* C8 witness: keycloak/../config.json was loaded and forwarded as
\* <root>/config.json.
C8_Witness ==
    /\ KeycloakPrefixed
    /\ wrapArgs.config[1].parts = <<"keycloak", "..", "config.json">>
    /\ opened = {ProjectRoot \o <<"config.json">>}
    /\ forwarded = {ProjectRoot \o <<"config.json">>}
    /\ reported

DockerCmds == SelectSeq(cmds, IsDocker)

\* C9: the container commands are ps, then down exactly when the ps output
\* contains Up, then up, each at most once; a failed down ends the run in
\* failure with no up issued.
C9_ComposeOrder ==
    LET d == DockerCmds IN
    /\ Names(d) \in {<<>>, <<"ps">>, <<"ps", "down">>, <<"ps", "up">>, <<"ps", "down", "up">>}
    /\ Len(d) >= 2 => (d[2].cmd = "down" <=> \E i \in 1..Len(d[1].out) : d[1].out[i] = "Up")
    /\ Names(d) = <<"ps">> => pc \in {"docker_down", "docker_up"}
    /\ Names(d) = <<"ps", "down">> => \/ d[2].rc = 0 /\ pc = "docker_up"
                                      \/ d[2].rc # 0 /\ Exited /\ exitCode = 1
    /\ Failed("down") => ~Has("up") /\ Exited /\ exitCode = 1

\* C9 witness: running containers were stopped and the stack started.
C9_Witness ==
    /\ Names(DockerCmds) = <<"ps", "down", "up">>
    /\ cmds[1].rc = 1
    /\ cmds[3].rc = 0

\* C10: the steps run in order and each only after the earlier ones
\* succeeded: container commands need a loaded config with realm.name,
\* health requests a successful up, the single setup spawn a 200, the
\* summary a successful setup; nothing runs after a failure and no down
\* follows an up.
C10_LinearSequence ==
    /\ cmds # <<>> => config = "ok" /\ realm_name = "demo"
    /\ health.requests > 0 => ContainersManaged
    /\ Count("setup") <= 1
    /\ Has("setup") => /\ health.ok >= 1
                       /\ waitResult = "True"
                       /\ cmds[Len(cmds)].cmd = "setup"
    /\ reported => Succeeded("setup") /\ Exited /\ exitCode = 0
    /\ \A i, j \in 1..Len(cmds) : (i < j /\ cmds[i].cmd = "up") => cmds[j].cmd = "setup"
    /\ (Exited /\ config # "ok") => cmds = <<>>
    /\ (Exited /\ ~ContainersManaged) => health.requests = 0
    /\ (Exited /\ health.ok = 0) => ~Has("setup")
    /\ (Exited /\ exitCode # 0) => ~reported

\* C10 witness: the containers started, the health poll ran out, and the run
\* ended there: no setup, no summary, no down.
C10_Witness ==
    /\ Exited
    /\ exitCode = 1
    /\ Names(cmds) = <<"ps", "up">>
    /\ waitResult = "False"
    /\ health.requests = DefaultMaxAttempts

====
